---- MODULE Spec2Model ----
(***************************************************************************)
(* Model of converter/xgb_language_converter.py: XGBoostLanguageConverter. *)
(*                                                                         *)
(* A converter object is built once (language, config, templates) and its  *)
(* methods are then called one at a time.  Every call is one action: it    *)
(* draws its arguments, runs the whole method and stores what the method   *)
(* returned or raised in `result`; Return hands control back to the caller.*)
(*                                                                         *)
(* Numbers.  A real value is a decimal  m * 10^(-e)  (record [m, e]); a    *)
(* multiplier is a power of ten given by its exponent, so that the source  *)
(* literal 10000000000 is the exponent 10 and value * multiplier is an     *)
(* exact fraction num/den.  Arithmetic is exact (Python ints are unbounded;*)
(* the binary rounding of the float product is not modelled).              *)
(*                                                                         *)
(* Text.  Generated text is a sequence of lines, each line a record of the *)
(* pieces the f-string puts on it; template text is opaque, so a formatted *)
(* template is the record of its role and of the values substituted.       *)
(*                                                                         *)
(* converter/cached_features.py is modelled beside it: the notebook's      *)
(* field encoder and the feature-name cache.  `files` is the file system   *)
(* at the cache paths and `writes` counts, per path, how often             *)
(* save_feature_names_cache has written the file.  The data read from the  *)
(* processed CSV files is opaque: it is named by the model it belongs to.  *)
(***************************************************************************)
EXTENDS Integers, Sequences, FiniteSets, TLC

VARIABLES language, config, templates, pc, call, result, files, writes

vars == <<language, config, templates, pc, call, result, files, writes>>

(***************************************************************************)
(* Bounds of the model.                                                    *)
(***************************************************************************)
MaxMantissa == 15
MaxVector == 2
MaxFeatures == 2
MaxTrees == 2
MaxWrites == 2

(***************************************************************************)
(* Exponent of the literal 10000000000 used by the field, input, leaf and  *)
(* threshold conversions.                                                  *)
(***************************************************************************)
NotebookPrecision == 10

Languages == {"zokrates", "rust", "python"}

PrecisionExponents == {NotebookPrecision - 1, NotebookPrecision}

ValueExponents == {NotebookPrecision, NotebookPrecision + 1}

Values == [m : (-MaxMantissa)..MaxMantissa, e : ValueExponents]

IndentConfigs == {[type |-> "spaces", size |-> 4], [type |-> "tabs", size |-> 1]}

Configs == [precision_multiplier : PrecisionExponents, indentation : IndentConfigs]

RECURSIVE Pow10(_)
Pow10(k) == IF k = 0 THEN 1 ELSE 10 * Pow10(k - 1)

Abs(n) == IF n < 0 THEN -n ELSE n

(***************************************************************************)
(* value * multiplier as an exact fraction [num, den], den > 0.            *)
(***************************************************************************)
Times(value, exponent) ==
    IF exponent >= value.e
    THEN [num |-> value.m * Pow10(exponent - value.e), den |-> 1]
    ELSE [num |-> value.m, den |-> Pow10(value.e - exponent)]

(***************************************************************************)
(* A rounding that sends a tie away from zero (not the one numpy uses).    *)
(***************************************************************************)
RoundHalfAway(x) ==
    LET q == x.num \div x.den
        r == x.num % x.den
    IN  IF 2 * r < x.den THEN q
        ELSE IF 2 * r > x.den THEN q + 1
        ELSE IF q >= 0 THEN q + 1 ELSE q

(***************************************************************************)
(* int(np.round(x, 0)): nearest integer, a tie goes to the even neighbour; *)
(* int() turns the float -0.0 into the integer 0.                          *)
(***************************************************************************)
NpRound(x) ==
    LET q == x.num \div x.den
        r == x.num % x.den
    IN  IF 2 * r < x.den THEN q
        ELSE IF 2 * r > x.den THEN q + 1
        ELSE IF q % 2 = 0 THEN q ELSE q + 1

(***************************************************************************)
(* Results of a call: a returned text or a raised exception.  A text is a  *)
(* sequence of tokens or lines; a rendered literal is a text of one token. *)
(***************************************************************************)
Returned(v) == [ok |-> TRUE, error |-> "", value |-> v]

Raised(e) == [ok |-> FALSE, error |-> e, value |-> <<>>]

StrictlyPositive(n) == n > 0

(***************************************************************************)
(* is_positive = converted_value >= 0                                      *)
(***************************************************************************)
IsPositive(n) == n >= 0

(***************************************************************************)
(* The fixed-point literal of an already scaled integer:                   *)
(*   zokrates  i64{sgn:<true|false>, v: <abs>}                             *)
(*   rust      from_scaled_i64(<signed>)                                   *)
(***************************************************************************)
FixedPointLiteral(lang, scaled_value) ==
    IF lang = "zokrates"
    THEN Returned(<<[form |-> "i64", sgn |-> IsPositive(scaled_value), v |-> Abs(scaled_value)]>>)
    ELSE IF lang = "rust"
    THEN Returned(<<[form |-> "from_scaled_i64", v |-> scaled_value]>>)
    ELSE Raised("NotImplementedError")

convert_number_to_fixed_point(lang, cfg, value) ==
    FixedPointLiteral(lang, NpRound(Times(value, cfg.precision_multiplier)))

convert_number_to_fixed_point_from_scaled(lang, scaled_value) ==
    FixedPointLiteral(lang, scaled_value)

(***************************************************************************)
(* Characters and tokens of the field text.                                *)
(***************************************************************************)
Char(c) == [char |-> c]

Digits(n) == [digits |-> n]

Quote == Char("\"")

CommaSpace == <<Char(","), Char(" ")>>

Delimiter == <<Quote>> \o CommaSpace \o <<Quote>>

(***************************************************************************)
(* convert_number_to_field: zokrates  <1|0>", "<abs> ; rust  <signed>.     *)
(***************************************************************************)
convert_number_to_field(lang, value) ==
    LET converted_value == NpRound(Times(value, NotebookPrecision))
        is_positive == IsPositive(converted_value)
        abs_value == Abs(converted_value)
    IN  IF lang = "zokrates"
        THEN Returned(<<Digits(IF is_positive THEN 1 ELSE 0)>> \o Delimiter \o <<Digits(abs_value)>>)
        ELSE IF lang = "rust"
        THEN Returned(<<Digits(converted_value)>>)
        ELSE Raised("NotImplementedError")

(***************************************************************************)
(* convert_number_to_input: zokrates {"sgn":<bool>, "v": "<abs>"} ; rust   *)
(* <signed>.                                                               *)
(***************************************************************************)
convert_number_to_input(lang, value) ==
    LET converted_value == NpRound(Times(value, NotebookPrecision))
        is_positive == IsPositive(converted_value)
        abs_value == Abs(converted_value)
    IN  IF lang = "zokrates"
        THEN Returned(<<[form |-> "input", sgn |-> is_positive, v |-> abs_value]>>)
        ELSE IF lang = "rust"
        THEN Returned(<<[form |-> "signed", v |-> converted_value]>>)
        ELSE Raised("NotImplementedError")

(***************************************************************************)
(* A join that also puts the separator after the last part.                *)
(***************************************************************************)
RECURSIVE JoinTrailing(_, _)
JoinTrailing(separator, parts) ==
    IF parts = <<>> THEN <<>>
    ELSE Head(parts) \o separator \o JoinTrailing(separator, Tail(parts))

(***************************************************************************)
(* separator.join(parts) for token sequences.                              *)
(***************************************************************************)
RECURSIVE Join(_, _)
Join(separator, parts) ==
    IF parts = <<>> THEN <<>>
    ELSE IF Len(parts) = 1 THEN Head(parts)
    ELSE Head(parts) \o separator \o Join(separator, Tail(parts))

(***************************************************************************)
(* The loop of convert_test_data_to_field_list: the first value whose      *)
(* conversion raises ends the call.                                        *)
(***************************************************************************)
RECURSIVE FieldParts(_, _)
FieldParts(lang, test_data) ==
    IF test_data = <<>> THEN Returned(<<>>)
    ELSE LET first == convert_number_to_field(lang, Head(test_data))
         IN  IF ~first.ok THEN first
             ELSE LET rest == FieldParts(lang, Tail(test_data))
                  IN  IF ~rest.ok THEN rest
                      ELSE Returned(<<first.value>> \o rest.value)

convert_test_data_to_field_list(lang, test_data) ==
    LET field_parts == FieldParts(lang, test_data)
    IN  IF ~field_parts.ok THEN field_parts
        ELSE IF lang = "zokrates"
        THEN Returned(<<Quote>> \o Join(Delimiter, field_parts.value) \o <<Quote>>)
        ELSE IF lang = "rust"
        THEN Returned(<<Char("vec![")>> \o Join(CommaSpace, field_parts.value) \o <<Char("]")>>)
        ELSE Returned(Join(CommaSpace, field_parts.value))

(***************************************************************************)
(* list[i] of Python on a 1-based sequence: a negative index counts from   *)
(* the end, an index outside -len..len-1 raises IndexError.                *)
(***************************************************************************)
PyIndexable(list, i) == i >= -Len(list) /\ i < Len(list)

PyIndex(list, i) == IF i >= 0 THEN list[i + 1] ELSE list[Len(list) + i + 1]

(***************************************************************************)
(* feature_names_to_indices: [str(i) for i in range(len(feature_names))];  *)
(* only the number of names is used.                                       *)
(***************************************************************************)
feature_names_to_indices(num_features) == [i \in 1..num_features |-> i - 1]

(***************************************************************************)
(* indent = indent_char * (size * depth)                                   *)
(***************************************************************************)
Indent(cfg, depth) ==
    [char |-> IF cfg.indentation.type = "spaces" THEN " " ELSE "\t",
     width |-> cfg.indentation.size * depth]

(***************************************************************************)
(* The lines _generate_tree_logic writes.  `pad` is the single blank the   *)
(* ZoKrates lines carry after the indent.                                  *)
(*   IfLine     [x = |let tree_result = ]if <le>(f[<feature>], <threshold>)*)
(*   ElseLine   } else {                                                   *)
(*   CloseLine  }  or  };                                                  *)
(*   AccLine    y = i64_add(y, x);                                         *)
(*   LeafLine   <literal>                                                  *)
(***************************************************************************)
NoLiteral == [form |-> ""]

IfLine(indent, bind, le, feature, threshold) ==
    [kind |-> "if", indent |-> indent, pad |-> 0, bind |-> bind, le |-> le,
     feature |-> feature, lit |-> threshold]

ElseLine(indent) ==
    [kind |-> "else", indent |-> indent, pad |-> 0, bind |-> "", le |-> "",
     feature |-> 0, lit |-> NoLiteral]

CloseLine(indent, pad, semicolon) ==
    [kind |-> IF semicolon THEN "close;" ELSE "close", indent |-> indent, pad |-> pad,
     bind |-> "", le |-> "", feature |-> 0, lit |-> NoLiteral]

AccLine(indent) ==
    [kind |-> "y = i64_add(y, x);", indent |-> indent, pad |-> 1, bind |-> "", le |-> "",
     feature |-> 0, lit |-> NoLiteral]

LeafLine(indent, pad, literal) ==
    [kind |-> "leaf", indent |-> indent, pad |-> pad, bind |-> "", le |-> "",
     feature |-> 0, lit |-> literal]

(***************************************************************************)
(* The two children of a Split in the order the code reads them, and the   *)
(* same with the branches exchanged.                                       *)
(***************************************************************************)
SwappedBranch(children, arm) ==
    IF Len(children) < 2 THEN children[1]
    ELSE IF arm = "yes" THEN children[2] ELSE children[1]

Branch(children, arm) == IF arm = "yes" THEN children[1] ELSE children[2]

(***************************************************************************)
(* _generate_tree_logic.  A node is the dictionary of the JSON dump, a     *)
(* function from its keys; 'split' holds the number that follows the 'f'.  *)
(* The exceptions are raised in the order the statements run.              *)
(***************************************************************************)
RECURSIVE _generate_tree_logic(_, _, _, _, _)
_generate_tree_logic(lang, cfg, tree_structure, feature_indices, depth) ==
    LET indent == Indent(cfg, depth)
    IN
    IF "leaf" \in DOMAIN tree_structure
    THEN LET leaf_value_scaled == NpRound(Times(tree_structure.leaf, NotebookPrecision))
             leaf_value == convert_number_to_fixed_point_from_scaled(lang, leaf_value_scaled)
         IN  IF ~leaf_value.ok THEN leaf_value
             ELSE IF lang = "rust"
             THEN Returned(<<LeafLine(indent, 0, leaf_value.value[1])>>)
             ELSE Returned(<<LeafLine(indent, 1, leaf_value.value[1])>>)
    ELSE IF "split" \notin DOMAIN tree_structure THEN Raised("KeyError")
    ELSE LET feature_idx == tree_structure.split.index
         IN
         IF ~PyIndexable(feature_indices, feature_idx) THEN Raised("IndexError")
         ELSE IF "split_condition" \notin DOMAIN tree_structure THEN Raised("KeyError")
         ELSE
         LET feature_index == PyIndex(feature_indices, feature_idx)
             threshold_scaled ==
                 NpRound(Times(tree_structure.split_condition, NotebookPrecision))
             threshold == convert_number_to_fixed_point_from_scaled(lang, threshold_scaled)
         IN
         IF ~threshold.ok THEN threshold
         ELSE
         LET condition ==
                 IF lang = "rust"
                 THEN IfLine(indent, IF depth = 1 THEN "let tree_result = " ELSE "",
                             "fixed_le", feature_index, threshold.value[1])
                 ELSE IfLine(indent, IF depth = 1 THEN "x = " ELSE "",
                             "i64_le", feature_index, threshold.value[1])
         IN
         IF "children" \notin DOMAIN tree_structure THEN Raised("KeyError")
         ELSE IF Len(tree_structure.children) < 1 THEN Raised("IndexError")
         ELSE
         LET yes_branch == Branch(tree_structure.children, "yes")
             yes_code == _generate_tree_logic(lang, cfg, yes_branch, feature_indices, depth + 1)
         IN
         IF ~yes_code.ok THEN yes_code
         ELSE IF Len(tree_structure.children) < 2 THEN Raised("IndexError")
         ELSE
         LET no_branch == Branch(tree_structure.children, "no")
             no_code == _generate_tree_logic(lang, cfg, no_branch, feature_indices, depth + 1)
             closing ==
                 IF lang = "rust"
                 THEN <<CloseLine(indent, 0, depth = 1)>>
                 ELSE IF depth = 1
                      THEN <<CloseLine(indent, 1, TRUE), AccLine(indent)>>
                      ELSE <<CloseLine(indent, 1, FALSE)>>
         IN
         IF ~no_code.ok THEN no_code
         ELSE Returned(<<condition>> \o yes_code.value \o <<ElseLine(indent)>>
                       \o no_code.value \o closing)

(***************************************************************************)
(* A formatted template: the role of the template and the values put into  *)
(* its placeholders.                                                       *)
(***************************************************************************)
HeaderPart == [role |-> "header"]

TreePart(tree_idx, tree_logic) ==
    [role |-> "tree", tree_idx |-> tree_idx, tree_logic |-> tree_logic]

MainPart(num_features, tree_code) ==
    [role |-> "main", num_features |-> num_features, tree_code |-> tree_code]

TestPart(num_features) == [role |-> "test", num_features |-> num_features]

(***************************************************************************)
(* The guard of the loop over the dump, and one that lets one more tree in.*)
(***************************************************************************)
StopsAfter(tree_idx, num_trees) == tree_idx > num_trees

Stops(tree_idx, num_trees) == tree_idx >= num_trees

(***************************************************************************)
(* The loop of convert_xgboost_to_code over enumerate(trees_dump), from    *)
(* position tree_idx on.  value.tree_codes is the list the loop builds;    *)
(* value.compiled lists the positions handed to _generate_tree_logic.      *)
(***************************************************************************)
RECURSIVE TreeCodes(_, _, _, _, _, _, _)
TreeCodes(lang, cfg, tmpl, trees_dump, feature_indices, num_trees, tree_idx) ==
    IF tree_idx >= Len(trees_dump) \/ Stops(tree_idx, num_trees)
    THEN Returned([tree_codes |-> <<>>, compiled |-> <<>>])
    ELSE LET tree_logic ==
                 _generate_tree_logic(lang, cfg, trees_dump[tree_idx + 1], feature_indices, 1)
         IN  IF ~tree_logic.ok THEN tree_logic
             ELSE LET rest == TreeCodes(lang, cfg, tmpl, trees_dump, feature_indices,
                                        num_trees, tree_idx + 1)
                      block == IF "tree" \in tmpl
                               THEN <<TreePart(tree_idx, tree_logic.value)>>
                               ELSE <<>>
                  IN  IF ~rest.ok THEN rest
                      ELSE Returned([tree_codes |-> block \o rest.value.tree_codes,
                                     compiled |-> <<tree_idx>> \o rest.value.compiled])

HeaderUnchecked(tmpl) == <<HeaderPart>>

(***************************************************************************)
(* if "header" in self.templates: code_parts.append(...)                   *)
(***************************************************************************)
HeaderParts(tmpl) == IF "header" \in tmpl THEN <<HeaderPart>> ELSE <<>>

(***************************************************************************)
(* convert_xgboost_to_code.  value is the list code_parts that the method  *)
(* joins with newlines; compiled records the positions the loop compiled.  *)
(***************************************************************************)
convert_xgboost_to_code(lang, cfg, tmpl, trees_dump, num_features, num_trees) ==
    LET feature_indices == feature_names_to_indices(num_features)
        header == HeaderParts(tmpl)
        loop == TreeCodes(lang, cfg, tmpl, trees_dump, feature_indices, num_trees, 0)
    IN  IF ~loop.ok THEN loop
        ELSE LET main == IF "main" \in tmpl
                         THEN <<MainPart(num_features, loop.value.tree_codes)>>
                         ELSE <<>>
                 test == IF lang = "rust" /\ "test" \in tmpl
                         THEN <<TestPart(num_features)>>
                         ELSE <<>>
             IN  [ok |-> TRUE, error |-> "", value |-> header \o main \o test,
                  compiled |-> loop.value.compiled]

(***************************************************************************)
(* _load_templates: the roles whose file exists.  Every language has the   *)
(* header, main and tree files; rust adds the test file (its cargo file is *)
(* read by save_code_to_file only and is left out).                        *)
(***************************************************************************)
TemplateFiles(lang) ==
    {"header", "main", "tree"} \cup (IF lang = "rust" THEN {"test"} ELSE {})

(***************************************************************************)
(* Inputs: values, vectors, tree nodes and dumps.                          *)
(***************************************************************************)
ScaledValues == (-MaxMantissa)..MaxMantissa

VectorValues == {[m |-> 15, e |-> NotebookPrecision + 1],
                 [m |-> -20, e |-> NotebookPrecision],
                 [m |-> -4, e |-> NotebookPrecision + 1]}

(* the sequences over S of length at most n *)
RECURSIVE SeqsUpTo(_, _)
SeqsUpTo(S, n) ==
    IF n = 0 THEN {<<>>}
    ELSE LET shorter == SeqsUpTo(S, n - 1)
         IN  shorter \cup {Append(s, x) : s \in shorter, x \in S}

Vectors == SeqsUpTo(VectorValues, MaxVector)

LeafValues == {[m |-> 15, e |-> NotebookPrecision + 1],
               [m |-> -5, e |-> NotebookPrecision + 1]}

Threshold == [m |-> 25, e |-> NotebookPrecision + 1]

Leaf(v) == [leaf |-> v]

Split(i, t, ch) ==
    [split |-> [prefix |-> "f", index |-> i], split_condition |-> t, children |-> ch]

Leaves == {Leaf(v) : v \in LeafValues}

LeafA == Leaf([m |-> 15, e |-> NotebookPrecision + 1])

LeafB == Leaf([m |-> -5, e |-> NotebookPrecision + 1])

InnerNodes == Leaves \cup {Split(0, Threshold, <<a, b>>) : a \in Leaves, b \in Leaves}

DeepTrees == {Split(0, Threshold, <<a, b>>) : a \in InnerNodes, b \in InnerNodes}

FeatureRefs == (-MaxFeatures - 1)..MaxFeatures

IndexTrees ==
    {Split(i, Threshold, <<LeafA, LeafB>>) : i \in FeatureRefs}
    \cup {Split(0, Threshold, <<LeafA, Split(i, Threshold, <<LeafA, LeafB>>)>>) :
              i \in {-1, MaxFeatures}}

MalformedNodes ==
    { [leaf |-> LeafA.leaf, children |-> <<LeafA, LeafB>>],
      [leaf |-> LeafA.leaf, nodeid |-> 0],
      Split(0, Threshold, <<LeafA, LeafB, LeafA>>),
      Split(0, Threshold, <<LeafA>>),
      Split(0, Threshold, <<>>),
      [split |-> [prefix |-> "f", index |-> 0], split_condition |-> Threshold],
      [split |-> [prefix |-> "f", index |-> 0], children |-> <<LeafA, LeafB>>],
      [nodeid |-> 0] }

MalformedTrees ==
    MalformedNodes
    \cup {Split(0, Threshold, <<m, LeafB>>) : m \in MalformedNodes}
    \cup {Split(0, Threshold, <<LeafA, m>>) : m \in MalformedNodes}

Nodes == InnerNodes \cup DeepTrees \cup IndexTrees \cup MalformedTrees

Depths == {1, 2}

DumpTrees ==
    { LeafA,
      Split(0, Threshold, <<Split(0, Threshold, <<LeafB, LeafA>>), LeafB>>),
      Split(0, Threshold, <<LeafA, LeafB, LeafA>>),
      [nodeid |-> 0] }

Dumps == SeqsUpTo(DumpTrees, MaxTrees)

(***************************************************************************)
(* cached_features.test_col2i64_list_of_field.                             *)
(***************************************************************************)
num2i64_field(x) ==
    <<Digits(IF x >= 0 THEN 1 ELSE 0)>> \o Delimiter \o <<Digits(Abs(x))>>

(* text[:-(k + 1)] *)
DropLastAndOneMore(text, k) == SubSeq(text, 1, Len(text) - k - 1)

(***************************************************************************)
(* text[:-k]; the k characters dropped are single-character tokens, a text *)
(* shorter than k is dropped whole.                                        *)
(***************************************************************************)
DropLast(text, k) == SubSeq(text, 1, Len(text) - k)

(* the loop: instr += num2i64_field(int(np.round(i*10000000000,0))); instr += '", "' *)
RECURSIVE InstrLoop(_, _)
InstrLoop(instr, test_col) ==
    IF test_col = <<>> THEN instr
    ELSE InstrLoop(instr \o num2i64_field(NpRound(Times(Head(test_col), NotebookPrecision)))
                         \o Delimiter,
                   Tail(test_col))

test_col2i64_list_of_field(test_col) ==
    Returned(DropLast(InstrLoop(<<Quote>>, test_col), 3))

(***************************************************************************)
(* The feature-name cache of cached_features.py.                           *)
(***************************************************************************)
CacheFiles == {"feature_names_cache.json", "other_cache.json"}

ModelNums == 1..5

Absent == [exists |-> FALSE]

(***************************************************************************)
(* get_feature_names_instr(i, use_xtra_features): what the processed data  *)
(* holds for model i; models 1 to 3 ignore use_xtra_features.              *)
(***************************************************************************)
get_feature_names_instr(i, use_xtra_features) ==
    LET xtra == i \in {4, 5} /\ use_xtra_features
    IN  [feature_names |-> [columns_of_model |-> i, xtra |-> xtra],
         instr |-> [row_of_model |-> i, xtra |-> xtra]]

(***************************************************************************)
(* The dictionary save_feature_names_cache builds and dumps.               *)
(***************************************************************************)
CacheEntries ==
    {[key |-> "model_" \o ToString(model_num),
      data |-> get_feature_names_instr(model_num, FALSE)] : model_num \in 1..3}
    \cup {[key |-> "model_" \o ToString(model_num) \o "_with_xtra",
           data |-> get_feature_names_instr(model_num, TRUE)] : model_num \in 4..5}
    \cup {[key |-> "model_" \o ToString(model_num) \o "_no_xtra",
           data |-> get_feature_names_instr(model_num, FALSE)] : model_num \in 4..5}

save_feature_names_cache ==
    [key \in {entry.key : entry \in CacheEntries} |->
        (CHOOSE entry \in CacheEntries : entry.key = key).data]

CacheFile == [exists |-> TRUE, cache |-> save_feature_names_cache]

(***************************************************************************)
(* The key a load looks up.                                                *)
(***************************************************************************)
CacheKey(model_num, use_xtra_features) ==
    IF model_num \in {4, 5}
    THEN "model_" \o ToString(model_num) \o "_"
                  \o (IF use_xtra_features THEN "with_xtra" ELSE "no_xtra")
    ELSE "model_" \o ToString(model_num)

(* a test that takes every file for missing *)
AlwaysMissing(fs, cache_file) == TRUE

(***************************************************************************)
(* not os.path.exists(cache_file)                                          *)
(***************************************************************************)
Missing(fs, cache_file) == ~fs[cache_file].exists

(***************************************************************************)
(* The body the three loads share: create the cache when the file is       *)
(* missing, read the file, look the key up, return the selected fields.    *)
(***************************************************************************)
LoadFromCache(op, fields) ==
    \E model_num \in ModelNums, use_xtra_features \in BOOLEAN, cache_file \in CacheFiles :
        LET created == Missing(files, cache_file)
            cache == IF created THEN save_feature_names_cache ELSE files[cache_file].cache
            key == CacheKey(model_num, use_xtra_features)
        IN  /\ pc = "idle"
            /\ writes[cache_file] < MaxWrites
            /\ pc' = "returned"
            /\ files' = IF created THEN [files EXCEPT ![cache_file] = CacheFile] ELSE files
            /\ writes' = IF created
                         THEN [writes EXCEPT ![cache_file] = @ + 1]
                         ELSE writes
            /\ call' = [op |-> op, model_num |-> model_num,
                        use_xtra_features |-> use_xtra_features, cache_file |-> cache_file,
                        key |-> key, found |-> files[cache_file].exists]
            /\ result' = IF key \in DOMAIN cache
                         THEN Returned([i \in 1..Len(fields) |-> cache[key][fields[i]]])
                         ELSE Raised("KeyError")
            /\ UNCHANGED <<language, config, templates>>

(***************************************************************************)
(* The converter after __init__, idle between calls.                       *)
(***************************************************************************)
NoCall == [op |-> ""]

NoResult == [ok |-> TRUE, error |-> "", value |-> <<>>]

Init ==
    /\ language \in Languages
    /\ config \in Configs
    /\ templates \in SUBSET TemplateFiles(language)
    /\ pc = "idle"
    /\ call = NoCall
    /\ result = NoResult
    /\ files = [cache_file \in CacheFiles |-> Absent]
    /\ writes = [cache_file \in CacheFiles |-> 0]

ConvertNumberToFixedPoint ==
    \E value \in Values :
        /\ pc = "idle"
        /\ pc' = "returned"
        /\ call' = [op |-> "convert_number_to_fixed_point", value |-> value]
        /\ result' = convert_number_to_fixed_point(language, config, value)
        /\ UNCHANGED <<language, config, templates, files, writes>>

ConvertNumberToFixedPointFromScaled ==
    \E scaled_value \in ScaledValues :
        /\ pc = "idle"
        /\ pc' = "returned"
        /\ call' = [op |-> "convert_number_to_fixed_point_from_scaled",
                    scaled_value |-> scaled_value]
        /\ result' = convert_number_to_fixed_point_from_scaled(language, scaled_value)
        /\ UNCHANGED <<language, config, templates, files, writes>>

ConvertNumberToField ==
    \E value \in Values :
        /\ pc = "idle"
        /\ pc' = "returned"
        /\ call' = [op |-> "convert_number_to_field", value |-> value]
        /\ result' = convert_number_to_field(language, value)
        /\ UNCHANGED <<language, config, templates, files, writes>>

ConvertNumberToInput ==
    \E value \in Values :
        /\ pc = "idle"
        /\ pc' = "returned"
        /\ call' = [op |-> "convert_number_to_input", value |-> value]
        /\ result' = convert_number_to_input(language, value)
        /\ UNCHANGED <<language, config, templates, files, writes>>

ConvertTestDataToFieldList ==
    \E test_data \in Vectors :
        /\ pc = "idle"
        /\ pc' = "returned"
        /\ call' = [op |-> "convert_test_data_to_field_list", test_data |-> test_data]
        /\ result' = convert_test_data_to_field_list(language, test_data)
        /\ UNCHANGED <<language, config, templates, files, writes>>

GenerateTreeLogic ==
    \E tree_structure \in Nodes, num_features \in 1..MaxFeatures, depth \in Depths :
        /\ pc = "idle"
        /\ pc' = "returned"
        /\ call' = [op |-> "_generate_tree_logic", tree_structure |-> tree_structure,
                    num_features |-> num_features, depth |-> depth]
        /\ result' = _generate_tree_logic(language, config, tree_structure,
                                          feature_names_to_indices(num_features), depth)
        /\ UNCHANGED <<language, config, templates, files, writes>>

ConvertXgboostToCode ==
    \E trees_dump \in Dumps, num_features \in 1..MaxFeatures, num_trees \in 0..MaxTrees :
        /\ pc = "idle"
        /\ pc' = "returned"
        /\ call' = [op |-> "convert_xgboost_to_code", trees_dump |-> trees_dump,
                    num_features |-> num_features, num_trees |-> num_trees]
        /\ result' = convert_xgboost_to_code(language, config, templates, trees_dump,
                                             num_features, num_trees)
        /\ UNCHANGED <<language, config, templates, files, writes>>

Return ==
    /\ pc = "returned"
    /\ pc' = "idle"
    /\ call' = NoCall
    /\ result' = NoResult
    /\ UNCHANGED <<language, config, templates, files, writes>>

Next ==
    \/ ConvertNumberToFixedPoint
    \/ ConvertNumberToFixedPointFromScaled
    \/ ConvertNumberToField
    \/ ConvertNumberToInput
    \/ ConvertTestDataToFieldList
    \/ GenerateTreeLogic
    \/ ConvertXgboostToCode
    \/ Return

Spec == Init /\ [][Next]_vars

(***************************************************************************)
(* The functions of cached_features.py.  They use no converter; the cache  *)
(* file may be left from an earlier run or not be there yet.               *)
(***************************************************************************)
CacheInit ==
    /\ language = "zokrates"
    /\ config = [precision_multiplier |-> NotebookPrecision,
                 indentation |-> [type |-> "spaces", size |-> 4]]
    /\ templates = TemplateFiles("zokrates")
    /\ pc = "idle"
    /\ call = NoCall
    /\ result = NoResult
    /\ files \in [CacheFiles -> {Absent, CacheFile}]
    /\ writes = [cache_file \in CacheFiles |-> 0]

TestCol2I64ListOfField ==
    \E test_col \in Vectors :
        /\ pc = "idle"
        /\ pc' = "returned"
        /\ call' = [op |-> "test_col2i64_list_of_field", test_col |-> test_col]
        /\ result' = test_col2i64_list_of_field(test_col)
        /\ UNCHANGED <<language, config, templates, files, writes>>

LoadFeatureNamesFromCache ==
    LoadFromCache("load_feature_names_from_cache", <<"feature_names">>)

LoadInstrFromCache ==
    LoadFromCache("load_instr_from_cache", <<"instr">>)

LoadFeatureNamesAndInstrFromCache ==
    LoadFromCache("load_feature_names_and_instr_from_cache", <<"feature_names", "instr">>)

CacheNext ==
    \/ TestCol2I64ListOfField
    \/ LoadFeatureNamesFromCache
    \/ LoadInstrFromCache
    \/ LoadFeatureNamesAndInstrFromCache
    \/ Return

CacheSpec == CacheInit /\ [][CacheNext]_vars

(***************************************************************************)
(* Vocabulary of the properties.                                           *)
(***************************************************************************)
Supported == language \in {"zokrates", "rust"}

Called(op) == pc = "returned" /\ call.op = op

HasKey(node, key) == key \in DOMAIN node

(* n is x rounded to the nearest integer, a tie going to the even one *)
IsRoundHalfEvenOf(n, x) ==
    LET twice_error == 2 * Abs(n * x.den - x.num)
    IN  /\ twice_error <= x.den
        /\ twice_error = x.den => n % 2 = 0

AbsValue(value) == [m |-> Abs(value.m), e |-> value.e]

(* sign and magnitude a rendered fixed-point literal shows *)
LiteralSign(lit) == IF lit.form = "i64" THEN lit.sgn ELSE lit.v >= 0

LiteralMagnitude(lit) == Abs(lit.v)

LiteralSigned(lit) ==
    IF lit.form = "i64" THEN (IF lit.sgn THEN lit.v ELSE -lit.v) ELSE lit.v

(* sign and magnitude a rendered field shows *)
FieldSign(tokens) ==
    IF language = "zokrates" THEN tokens[1].digits = 1 ELSE tokens[1].digits >= 0

FieldMagnitude(tokens) == Abs(tokens[Len(tokens)].digits)

(***************************************************************************)
(* The encodings visible in the current result: the value encoded, the     *)
(* sign and the magnitude rendered for it.                                 *)
(***************************************************************************)
Encoding(value, sign, magnitude) == [value |-> value, sign |-> sign, magnitude |-> magnitude]

Encodings ==
    IF pc # "returned" \/ ~result.ok THEN {}
    ELSE IF call.op = "convert_number_to_field"
    THEN {Encoding(call.value, FieldSign(result.value), FieldMagnitude(result.value))}
    ELSE IF call.op = "_generate_tree_logic"
    THEN LET line == result.value[1]
             value == IF HasKey(call.tree_structure, "leaf")
                      THEN call.tree_structure.leaf
                      ELSE call.tree_structure.split_condition
         IN  {Encoding(value, LiteralSign(line.lit), LiteralMagnitude(line.lit))}
    ELSE {}

(***************************************************************************)
(* C1.  A compiled Split is laid out as: the less-than-or-equal comparison *)
(* of its feature against its threshold, the text of children[0], the else *)
(* line, the text of children[1], the close; in both dialects and at both  *)
(* the outermost and the inner depths.                                     *)
(***************************************************************************)
C1_SplitLayout ==
    (/\ Called("_generate_tree_logic")
     /\ result.ok
     /\ ~HasKey(call.tree_structure, "leaf")
     /\ call.tree_structure.split.index >= 0)
    => LET node == call.tree_structure
           text == result.value
           feature_indices == feature_names_to_indices(call.num_features)
           yes == _generate_tree_logic(language, config, node.children[1],
                                       feature_indices, call.depth + 1)
           no == _generate_tree_logic(language, config, node.children[2],
                                      feature_indices, call.depth + 1)
           else_at == 2 + Len(yes.value)
           close_at == else_at + Len(no.value) + 1
       IN  /\ yes.ok /\ no.ok
           /\ text[1].kind = "if"
           /\ text[1].le = (IF language = "rust" THEN "fixed_le" ELSE "i64_le")
           /\ text[1].feature = node.split.index
           /\ IsRoundHalfEvenOf(LiteralSigned(text[1].lit),
                                Times(node.split_condition, NotebookPrecision))
           /\ Len(text) >= close_at
           /\ SubSeq(text, 2, else_at - 1) = yes.value
           /\ text[else_at] = ElseLine(text[1].indent)
           /\ SubSeq(text, else_at + 1, close_at - 1) = no.value
           /\ text[close_at].kind \in {"close", "close;"}
           /\ \A i \in (close_at + 1)..Len(text) : text[i].kind \notin {"if", "else", "leaf"}

C1_Witness ==
    /\ Called("_generate_tree_logic")
    /\ result.ok
    /\ call.depth = 2
    /\ ~HasKey(call.tree_structure, "leaf")
    /\ HasKey(call.tree_structure.children[1], "split")
    /\ HasKey(call.tree_structure.children[2], "leaf")

(***************************************************************************)
(* C2 as claimed.  Every encoded value v is rendered with a non-negative   *)
(* sign exactly when v >= 0, and with the magnitude round(|v| * 10^10).    *)
(***************************************************************************)
C2_SignOfValue ==
    \A enc \in Encodings :
        /\ enc.sign <=> enc.value.m >= 0
        /\ IsRoundHalfEvenOf(enc.magnitude, Times(AbsValue(enc.value), NotebookPrecision))

(***************************************************************************)
(* C2 as amended.  The sign rendered is that of the scaled integer: it is  *)
(* non-negative exactly when v >= 0 or the scaled magnitude rounds to 0;   *)
(* the magnitude is round(|v| * 10^10).                                    *)
(***************************************************************************)
C2_SignOfScaled ==
    \A enc \in Encodings :
        /\ enc.sign <=> (enc.value.m >= 0 \/ enc.magnitude = 0)
        /\ IsRoundHalfEvenOf(enc.magnitude, Times(AbsValue(enc.value), NotebookPrecision))

C2_Witness ==
    \E enc \in Encodings : enc.value.m < 0 /\ enc.magnitude = 0 /\ enc.sign

(***************************************************************************)
(* C7.  The integer a conversion scales a value to is value * scaleFactor  *)
(* rounded to the nearest integer, a tie going to the even neighbour, for  *)
(* either sign; so it is within 0.5 / scaleFactor of the value.            *)
(***************************************************************************)
C7_RoundHalfEven ==
    /\ (Called("convert_number_to_fixed_point") /\ result.ok)
       => IsRoundHalfEvenOf(LiteralSigned(result.value[1]),
                            Times(call.value, config.precision_multiplier))
    /\ (Called("_generate_tree_logic") /\ result.ok /\ HasKey(call.tree_structure, "leaf"))
       => IsRoundHalfEvenOf(LiteralSigned(result.value[1].lit),
                            Times(call.tree_structure.leaf, NotebookPrecision))

C7_Witness ==
    /\ Called("convert_number_to_fixed_point")
    /\ result.ok
    /\ LET x == Times(call.value, config.precision_multiplier)
       IN  /\ x.num < 0
           /\ 2 * (x.num % x.den) = x.den
           /\ LiteralSigned(result.value[1]) # 0

(***************************************************************************)
(* More vocabulary: the well-formed nodes of the data model, the retained  *)
(* trees of a conversion, the parts of its output.                         *)
(***************************************************************************)
RECURSIVE WellFormed(_)
WellFormed(node) ==
    \/ DOMAIN node = {"leaf"}
    \/ /\ DOMAIN node = {"split", "split_condition", "children"}
       /\ Len(node.children) = 2
       /\ WellFormed(node.children[1])
       /\ WellFormed(node.children[2])

Min(a, b) == IF a < b THEN a ELSE b

Retained == 1..Min(call.num_trees, Len(call.trees_dump))

PartsOf(code, role) == {i \in DOMAIN code : code[i].role = role}

TreeBlocks(code) ==
    IF PartsOf(code, "main") = {} THEN <<>>
    ELSE code[CHOOSE i \in PartsOf(code, "main") : TRUE].tree_code

BindingLines(text) == {i \in DOMAIN text : text[i].bind # ""}

AccumulateLines(text) == {i \in DOMAIN text : text[i].kind = "y = i64_add(y, x);"}

C4_BoundOncePerTree ==
    (/\ Called("convert_xgboost_to_code")
     /\ result.ok
     /\ {"tree", "main"} \subseteq templates)
    => LET blocks == TreeBlocks(result.value)
       IN  \A i \in DOMAIN blocks :
               /\ BindingLines(blocks[i].tree_logic) = {1}
               /\ language = "zokrates"
                  => Cardinality(AccumulateLines(blocks[i].tree_logic)) = 1

(***************************************************************************)
(* C5.  Compiling a Split over Leaf children fails when its feature index  *)
(* lies outside [0, F), and otherwise succeeds and emits that very index.  *)
(***************************************************************************)
C5_IndexInRange ==
    (/\ Called("_generate_tree_logic")
     /\ Supported
     /\ WellFormed(call.tree_structure)
     /\ HasKey(call.tree_structure, "split")
     /\ HasKey(call.tree_structure.children[1], "leaf")
     /\ HasKey(call.tree_structure.children[2], "leaf"))
    => LET index == call.tree_structure.split.index
       IN  IF index >= 0 /\ index < call.num_features
           THEN result.ok /\ result.value[1].feature = index
           ELSE ~result.ok

(***************************************************************************)
(* C6.  A conversion whose retained trees include a node that is neither a *)
(* well-formed Leaf nor a well-formed Split fails and returns no text.     *)
(***************************************************************************)
C6_MalformedAborts ==
    (/\ Called("convert_xgboost_to_code")
     /\ \E i \in Retained : ~WellFormed(call.trees_dump[i]))
    => ~result.ok

(***************************************************************************)
(* C8.  The literal the Tree Compiler emits for a leaf value or a split    *)
(* threshold is the one convert_number_to_fixed_point gives for that value *)
(* under the configuration's precision_multiplier.                         *)
(***************************************************************************)
C8_ProfileScale ==
    (Called("_generate_tree_logic") /\ result.ok)
    => LET node == call.tree_structure
           value == IF HasKey(node, "leaf") THEN node.leaf ELSE node.split_condition
       IN  result.value[1].lit = convert_number_to_fixed_point(language, config, value).value[1]

(***************************************************************************)
(* C9.  On a converter of an unsupported language every rendering call     *)
(* fails: field lists (the empty vector included), tree logic, and whole   *)
(* conversions (with no retained tree included).                           *)
(***************************************************************************)
C9_UnsupportedFails ==
    (/\ ~Supported
     /\ pc = "returned"
     /\ call.op \in {"convert_test_data_to_field_list", "_generate_tree_logic",
                     "convert_xgboost_to_code"})
    => ~result.ok

(***************************************************************************)
(* C10.  A conversion that succeeds with the header, main and tree         *)
(* templates all loaded also succeeds when some are absent, and what it    *)
(* returns then is the same output less the absent sections: no header     *)
(* part without header; a main part with an empty tree-code slot without   *)
(* tree; neither main part nor tree block without main.                    *)
(***************************************************************************)
C10_MissingTemplateOmitted ==
    LET full == convert_xgboost_to_code(language, config,
                                        templates \cup {"header", "main", "tree"},
                                        call.trees_dump, call.num_features, call.num_trees)
    IN  (Called("convert_xgboost_to_code") /\ full.ok)
        => LET code == result.value
               whole == full.value
               main_of(c) == c[CHOOSE i \in PartsOf(c, "main") : TRUE]
           IN  /\ result.ok
               /\ \A role \in {"header", "main", "test"} :
                      Cardinality(PartsOf(code, role)) = (IF role \in templates THEN 1 ELSE 0)
               /\ PartsOf(code, "tree") = {}
               /\ "header" \notin templates /\ "main" \in templates => code[1].role = "main"
               /\ "header" \in templates => code[1] = whole[1]
               /\ "main" \in templates
                  => /\ main_of(code).num_features = main_of(whole).num_features
                     /\ main_of(code).tree_code =
                            (IF "tree" \in templates THEN main_of(whole).tree_code ELSE <<>>)
               /\ \A i \in PartsOf(code, "test") : code[i] = whole[Len(whole)]

C10_Witness ==
    /\ Called("convert_xgboost_to_code")
    /\ result.ok
    /\ templates = {"header", "main"}
    /\ Retained # {}
    /\ TreeBlocks(result.value) = <<>>
    /\ Len(result.value) = 2

(***************************************************************************)
(* The layout of a ZoKrates field list of n values: an opening quote, per  *)
(* value a sign token, the delimiter and a magnitude token, the delimiter  *)
(* between values, a closing quote; 2n number tokens in all.               *)
(***************************************************************************)
NumberTokens(text) == {p \in DOMAIN text : "digits" \in DOMAIN text[p]}

SignAt(i) == 10 * (i - 1) + 2

MagnitudeAt(i) == 10 * (i - 1) + 7

FieldListLayout(text, n) ==
    /\ Len(text) = (IF n = 0 THEN 2 ELSE 10 * n - 2)
    /\ text[1] = Quote
    /\ text[Len(text)] = Quote
    /\ Cardinality(NumberTokens(text)) = 2 * n
    /\ \A i \in 1..n :
          /\ NumberTokens(text) \cap SignAt(i)..MagnitudeAt(i) = {SignAt(i), MagnitudeAt(i)}
          /\ SubSeq(text, SignAt(i) + 1, MagnitudeAt(i) - 1) = Delimiter
          /\ i < n => SubSeq(text, MagnitudeAt(i) + 1, SignAt(i + 1) - 1) = Delimiter

(***************************************************************************)
(* C11 as claimed.  For ZoKrates the field list of n values is one quoted, *)
(* delimiter-joined sequence of 2n tokens: for the i-th value a sign token *)
(* that is 1 when the value is non-negative and 0 when it is negative,     *)
(* then the magnitude round(|v_i| * 10^10).                                *)
(***************************************************************************)
C11_SignTokenOfValue ==
    (Called("convert_test_data_to_field_list") /\ language = "zokrates")
    => LET text == result.value
           data == call.test_data
       IN  /\ result.ok
           /\ FieldListLayout(text, Len(data))
           /\ \A i \in 1..Len(data) :
                 /\ text[SignAt(i)].digits = (IF data[i].m >= 0 THEN 1 ELSE 0)
                 /\ IsRoundHalfEvenOf(text[MagnitudeAt(i)].digits,
                                      Times(AbsValue(data[i]), NotebookPrecision))

(***************************************************************************)
(* C11 as amended.  The same, the sign token being that of the scaled      *)
(* integer: 1 when the value is non-negative or its magnitude rounds to 0, *)
(* and 0 otherwise.                                                        *)
(***************************************************************************)
C11_SignTokenOfScaled ==
    (Called("convert_test_data_to_field_list") /\ language = "zokrates")
    => LET text == result.value
           data == call.test_data
       IN  /\ result.ok
           /\ FieldListLayout(text, Len(data))
           /\ \A i \in 1..Len(data) :
                 /\ text[SignAt(i)].digits =
                        (IF data[i].m >= 0 \/ text[MagnitudeAt(i)].digits = 0 THEN 1 ELSE 0)
                 /\ IsRoundHalfEvenOf(text[MagnitudeAt(i)].digits,
                                      Times(AbsValue(data[i]), NotebookPrecision))

C11_Witness ==
    /\ Called("convert_test_data_to_field_list")
    /\ language = "zokrates"
    /\ result.ok
    /\ Len(call.test_data) = 2
    /\ call.test_data[1].m > 0
    /\ call.test_data[2].m < 0
    /\ result.value[SignAt(2)].digits = 0
    /\ result.value[MagnitudeAt(2)].digits > 0

(***************************************************************************)
(* C12.  On every non-empty vector the notebook's encoder                  *)
(* test_col2i64_list_of_field returns the very text that                   *)
(* convert_test_data_to_field_list returns for ZoKrates: same sign tokens, *)
(* magnitudes, delimiters and quotes, and no trailing delimiter.           *)
(***************************************************************************)
C12_EncodersAgree ==
    (Called("test_col2i64_list_of_field") /\ call.test_col # <<>>)
    => /\ result.ok
       /\ result.value = convert_test_data_to_field_list("zokrates", call.test_col).value
       /\ result.value[Len(result.value)] = Quote
       /\ "digits" \in DOMAIN result.value[Len(result.value) - 1]

C12_Witness ==
    /\ Called("test_col2i64_list_of_field")
    /\ Len(call.test_col) = 2
    /\ call.test_col[1].m < 0
    /\ call.test_col[2].m > 0
    /\ Len(result.value) = 18

(***************************************************************************)
(* C13.  Over any sequence of loads with model_num in 1..5: after a load   *)
(* the cache file exists and the key looked up (model_N for N in 1..3      *)
(* whatever use_xtra_features is, model_N_with_xtra or model_N_no_xtra for *)
(* N in 4..5) is a key of the cache, so the load returns; a file is        *)
(* written at most once, only by a load that found it missing, and an      *)
(* existing file is never written again or changed.                        *)
(***************************************************************************)
LoadOps == {"load_feature_names_from_cache", "load_instr_from_cache",
            "load_feature_names_and_instr_from_cache"}

CacheAfterLoad ==
    /\ \A cache_file \in CacheFiles : writes[cache_file] <= 1
    /\ (pc = "returned" /\ call.op \in LoadOps)
       => /\ files[call.cache_file].exists
          /\ call.key \in DOMAIN files[call.cache_file].cache
          /\ call.key \in DOMAIN save_feature_names_cache
          /\ result.ok
          /\ Len(result.value) = (IF call.op = "load_feature_names_and_instr_from_cache"
                                  THEN 2 ELSE 1)
          /\ call.model_num \in 1..3 => call.key = "model_" \o ToString(call.model_num)
          /\ call.model_num \in 4..5
             => call.key \in {"model_" \o ToString(call.model_num) \o "_with_xtra",
                              "model_" \o ToString(call.model_num) \o "_no_xtra"}

CacheWrittenOnce ==
    \A cache_file \in CacheFiles :
        /\ files[cache_file].exists
           => files'[cache_file] = files[cache_file] /\ writes'[cache_file] = writes[cache_file]
        /\ writes'[cache_file] # writes[cache_file]
           => /\ ~files[cache_file].exists
              /\ files'[cache_file].exists
              /\ call'.op \in LoadOps
              /\ call'.cache_file = cache_file

C13_CacheOnce == [](CacheAfterLoad) /\ [][CacheWrittenOnce]_vars

C13_Witness ==
    /\ Called("load_instr_from_cache")
    /\ call.found
    /\ writes[call.cache_file] = 1
    /\ call.model_num = 5
    /\ ~call.use_xtra_features
    /\ result.ok

====
